---- MODULE Spec2Model ----
(***************************************************************************)
(* OrbitChain (src/Orbitchain.py): Transaction, Validator, Orbit and       *)
(* OrbitChainNetwork as a state machine.  Strings are TLA+ strings; a      *)
(* digest is the 16 character hexadecimal string the code keeps of a       *)
(* SHA-256 value, computed here by a small deterministic hash of the       *)
(* hashed bytes (so two different inputs may collide, as they may in the   *)
(* code, and equal inputs always agree).                                   *)
(***************************************************************************)
EXTENDS Integers, Sequences, FiniteSets, TLC

VARIABLES
    orbits,                 \* OrbitChainNetwork.orbits
    validators,             \* OrbitChainNetwork.validators
    pending_transactions,   \* OrbitChainNetwork.pending_transactions
    current_orbit_index,    \* OrbitChainNetwork.current_orbit_index
    network_stats,          \* OrbitChainNetwork.network_stats
    orbit,                  \* an Orbit object used on its own (SpecOrbit)
    submitted,              \* number of submit_transaction calls so far
    pc,                     \* create_demo_network: the statements of it done (SpecDemo)
    last                    \* the last call: what it returned, whether it raised,
                            \* its arguments, what it showed, and the decisions
                            \* of the consensus gate in it

vars == <<orbits, validators, pending_transactions, current_orbit_index,
          network_stats, orbit, submitted, pc, last>>

-----------------------------------------------------------------------------
(* Bounds of the model *)

MaxSubmits == 2
MaxValidators == 2
MaxOrbits == 3

(* Program constants *)

DefaultMaxTransactions == 8
GenesisMaxTransactions == 1
ThresholdPercent == 67
MinSignatureLen == 10
FullCircle == 360

\* datetime.now(): the wall clock reads one of two values
Timestamps == {0, 1}

\* calls enough to fill an orbit of the default capacity and go on
MaxFill == DefaultMaxTransactions + MaxSubmits - 1

-----------------------------------------------------------------------------
(* hashlib.sha256(...).hexdigest()[:16] *)

HexChars == <<"0", "1", "2", "3", "4", "5", "6", "7",
              "8", "9", "a", "b", "c", "d", "e", "f">>

\* ASCII codes of the characters of HexChars
HexCodes == <<48, 49, 50, 51, 52, 53, 54, 55, 56, 57, 97, 98, 99, 100, 101, 102>>

DigestSpace == 0..255

RECURSIVE HexStr(_, _)
HexStr(n, len) ==
    IF len = 0 THEN "" ELSE HexStr(n \div 16, len - 1) \o HexChars[(n % 16) + 1]

RECURSIVE HexBytes(_, _)
HexBytes(n, len) ==
    IF len = 0 THEN <<>> ELSE HexBytes(n \div 16, len - 1) \o <<HexCodes[(n % 16) + 1]>>

\* the 16 character digests, and their bytes
Digests == [n \in DigestSpace |-> HexStr(n, 16)]
DigestBytes == [n \in DigestSpace |-> HexBytes(n, 16)]

DigestIndex ==
    [s \in {Digests[n] : n \in DigestSpace} |-> CHOOSE n \in DigestSpace : Digests[n] = s]

ZeroRoot == "0000000000000000"

\* str.encode(): the bytes of a string of the model
Encode(s) ==
    CASE s = "" -> <<>>
      [] s = "Alice" -> <<65, 108, 105, 99, 101>>
      [] s = "Bob" -> <<66, 111, 98>>
      [] s = "SYSTEM" -> <<83, 89, 83, 84, 69, 77>>
      [] s = "NETWORK" -> <<78, 69, 84, 87, 79, 82, 75>>
      [] s = "data" -> <<100, 97, 116, 97>>
      [] s = "Genesis orbit created" ->
            <<71, 101, 110, 101, 115, 105, 115, 32, 111, 114, 98, 105, 116, 32,
              99, 114, 101, 97, 116, 101, 100>>
      [] OTHER -> DigestBytes[DigestIndex[s]]

\* the decimal digit of a small number (a timestamp, a count, an orbit number)
NumBytes(n) == <<48 + n>>

RECURSIVE HashFold(_, _)
HashFold(bytes, h) ==
    IF bytes = <<>> THEN h
    ELSE HashFold(Tail(bytes), (h * 31 + Head(bytes)) % 256)

Sha256Hex16(bytes) == Digests[HashFold(bytes, 7)]

-----------------------------------------------------------------------------
(* class Transaction *)

sign(sender, receiver, data, timestamp) ==
    Sha256Hex16(Encode(sender) \o Encode(receiver) \o Encode(data) \o NumBytes(timestamp))

\* Transaction.__init__; id stands for the object (generate_id draws it at random)
Transaction(id, sender, receiver, data, timestamp) ==
    [id |-> id, sender |-> sender, receiver |-> receiver, data |-> data,
     timestamp |-> timestamp, signature |-> sign(sender, receiver, data, timestamp)]

\* the transaction objects a caller submits: one well formed, one without a
\* sender, one without a receiver
TxPool ==
    { Transaction(1, "Alice", "Bob", "data", 0),
      Transaction(2, "", "Bob", "data", 0),
      Transaction(3, "Alice", "", "data", 0) }

\* the well formed ones
FillPool == { Transaction(1, "Alice", "Bob", "data", 0) }
DemoPool == FillPool \cup { Transaction(4, "Bob", "Alice", "data", 1) }

\* the ones an Orbit used on its own is given
OrbitPool == { tx \in TxPool : tx.id <= 2 }

-----------------------------------------------------------------------------
(* class Validator *)

Validator(name) ==
    [name |-> name, is_active |-> TRUE, sector_position |-> 0, validated_count |-> 0]

\* the check of sender and receiver left out
validate_transaction_NoParties(v, tx) ==
    IF tx.signature = "" \/ Len(tx.signature) < MinSignatureLen
    THEN [validator |-> v, ret |-> FALSE]
    ELSE [validator |-> [v EXCEPT !.validated_count = @ + 1], ret |-> TRUE]

\* the counter moved before the checks
validate_transaction_CountAlways(v, tx) ==
    LET counted == [v EXCEPT !.validated_count = @ + 1]
    IN IF tx.signature = "" \/ Len(tx.signature) < MinSignatureLen
       THEN [validator |-> counted, ret |-> FALSE]
       ELSE IF tx.sender = "" \/ tx.receiver = ""
       THEN [validator |-> counted, ret |-> FALSE]
       ELSE [validator |-> counted, ret |-> TRUE]

validate_transaction(v, tx) ==
    IF tx.signature = "" \/ Len(tx.signature) < MinSignatureLen
    THEN [validator |-> v, ret |-> FALSE]
    ELSE IF tx.sender = "" \/ tx.receiver = ""
    THEN [validator |-> v, ret |-> FALSE]
    ELSE [validator |-> [v EXCEPT !.validated_count = @ + 1], ret |-> TRUE]

-----------------------------------------------------------------------------
(* class Orbit *)

Orbit(orbit_number, max_transactions, timestamp) ==
    [orbit_number |-> orbit_number, transactions |-> <<>>,
     max_transactions |-> max_transactions, timestamp |-> timestamp,
     is_sealed |-> FALSE, orbital_hash |-> "", previous_hash |-> "",
     merkle_root |-> ""]

\* a pass that carries an unpaired last hash up as it is
MerkleLevel_CarryOdd(hashes) ==
    [k \in 1..((Len(hashes) + 1) \div 2) |->
        LET i == 2 * k - 1
        IN IF i + 1 <= Len(hashes)
           THEN Sha256Hex16(Encode(hashes[i]) \o Encode(hashes[i + 1]))
           ELSE hashes[i]]

\* one pass of the while loop of update_merkle_root
MerkleLevel(hashes) ==
    [k \in 1..((Len(hashes) + 1) \div 2) |->
        LET i == 2 * k - 1
            combined == IF i + 1 <= Len(hashes)
                        THEN Encode(hashes[i]) \o Encode(hashes[i + 1])
                        ELSE Encode(hashes[i]) \o Encode(hashes[i])
        IN Sha256Hex16(combined)]

RECURSIVE MerkleFold(_)
MerkleFold(hashes) ==
    IF Len(hashes) > 1 THEN MerkleFold(MerkleLevel(hashes)) ELSE hashes

update_merkle_root(o) ==
    IF o.transactions = <<>>
    THEN [o EXCEPT !.merkle_root = ZeroRoot]
    ELSE LET hashes == MerkleFold([i \in 1..Len(o.transactions) |-> o.transactions[i].signature])
         IN [o EXCEPT !.merkle_root = IF hashes # <<>> THEN hashes[1] ELSE ZeroRoot]

\* the check of is_sealed left out
add_transaction_Unguarded(o, tx) ==
    IF Len(o.transactions) >= o.max_transactions THEN [orbit |-> o, ret |-> FALSE]
    ELSE [orbit |-> update_merkle_root([o EXCEPT !.transactions = Append(@, tx)]),
          ret |-> TRUE]

add_transaction(o, tx) ==
    IF o.is_sealed THEN [orbit |-> o, ret |-> FALSE]
    ELSE IF Len(o.transactions) >= o.max_transactions THEN [orbit |-> o, ret |-> FALSE]
    ELSE [orbit |-> update_merkle_root([o EXCEPT !.transactions = Append(@, tx)]),
          ret |-> TRUE]

\* json.dumps(content, sort_keys=True): the keys in alphabetical order
OrbitContent(o) ==
    Encode(o.merkle_root) \o <<44>> \o NumBytes(o.orbit_number) \o <<44>>
      \o Encode(o.previous_hash) \o <<44>> \o NumBytes(o.timestamp) \o <<44>>
      \o NumBytes(Len(o.transactions))

\* previous_hash not stored
seal_orbit_NoPrevious(o, previous_hash) ==
    LET s == [o EXCEPT !.is_sealed = TRUE]
    IN [s EXCEPT !.orbital_hash = Sha256Hex16(OrbitContent(s))]

seal_orbit(o, previous_hash) ==
    LET s == [o EXCEPT !.previous_hash = previous_hash, !.is_sealed = TRUE]
    IN [s EXCEPT !.orbital_hash = Sha256Hex16(OrbitContent(s))]

\* > for >=
is_full_Strict(o) == Len(o.transactions) > o.max_transactions

is_full(o) == Len(o.transactions) >= o.max_transactions

-----------------------------------------------------------------------------
(* class OrbitChainNetwork: the methods, on a record net of the object's fields *)

Network ==
    [orbits |-> orbits, validators |-> validators,
     pending_transactions |-> pending_transactions,
     current_orbit_index |-> current_orbit_index,
     network_stats |-> network_stats]

\* orbits is a Python list: index i of the code is position i + 1 here
At(seq, i) == seq[i + 1]

create_genesis_orbit(net, timestamp) ==
    LET genesis == Orbit(0, GenesisMaxTransactions, timestamp)
        genesis_tx == Transaction(0, "SYSTEM", "NETWORK", "Genesis orbit created", timestamp)
        added == add_transaction(genesis, genesis_tx).orbit
        sealed == seal_orbit(added, "")
    IN [net EXCEPT !.orbits = Append(@, sealed),
                   !.network_stats = [total_transactions |-> 1, total_orbits |-> 1]]

\* add_validator placing the whole pool anew at every registration
add_validator_Redistribute(net, validator) ==
    LET all == Append(net.validators, validator)
        count == Len(all)
    IN [net EXCEPT !.validators =
            [i \in 1..count |->
                [all[i] EXCEPT !.sector_position = (i - 1) * (FullCircle \div count)]]]

add_validator(net, validator) ==
    LET n == Len(net.validators)
        divisor == IF n + 1 > 1 THEN n + 1 ELSE 1
        placed == [validator EXCEPT !.sector_position = n * (FullCircle \div divisor)]
    IN [net EXCEPT !.validators = Append(@, placed)]

submit_transaction(net, tx) ==
    [net EXCEPT !.pending_transactions = Append(@, tx)]

\* the new orbit inserted at the front of the list
create_new_orbit_Prepend(net, timestamp) ==
    LET index == net.current_orbit_index + 1
        new_orbit == Orbit(index, DefaultMaxTransactions, timestamp)
    IN [net EXCEPT !.current_orbit_index = index,
                   !.orbits = <<new_orbit>> \o @,
                   !.network_stats.total_orbits = @ + 1]

\* the new orbit numbered before the index is advanced
create_new_orbit_StaleNumber(net, timestamp) ==
    LET new_orbit == Orbit(net.current_orbit_index, DefaultMaxTransactions, timestamp)
    IN [net EXCEPT !.current_orbit_index = @ + 1,
                   !.orbits = Append(@, new_orbit),
                   !.network_stats.total_orbits = @ + 1]

create_new_orbit(net, timestamp) ==
    LET index == net.current_orbit_index + 1
        new_orbit == Orbit(index, DefaultMaxTransactions, timestamp)
    IN [net EXCEPT !.current_orbit_index = index,
                   !.orbits = Append(@, new_orbit),
                   !.network_stats.total_orbits = @ + 1]

\* sealed without the hash of the orbit before
seal_current_orbit_Unlinked(net) ==
    LET current_orbit == At(net.orbits, net.current_orbit_index)
    IN [net EXCEPT !.orbits[net.current_orbit_index + 1] = seal_orbit(current_orbit, "")]

seal_current_orbit(net) ==
    LET current_orbit == At(net.orbits, net.current_orbit_index)
        previous_hash == IF net.current_orbit_index > 0
                         THEN At(net.orbits, net.current_orbit_index - 1).orbital_hash
                         ELSE ""
    IN [net EXCEPT !.orbits[net.current_orbit_index + 1] =
                        seal_orbit(current_orbit, previous_hash)]

\* the for loop of validate_transaction_consensus, from validator i on
RECURSIVE ConsensusLoop(_, _, _, _)
ConsensusLoop(vals, tx, i, approvals) ==
    IF i > Len(vals) THEN [validators |-> vals, approvals |-> approvals]
    ELSE IF vals[i].is_active
    THEN LET r == validate_transaction(vals[i], tx)
         IN ConsensusLoop([vals EXCEPT ![i] = r.validator], tx, i + 1,
                          IF r.ret THEN approvals + 1 ELSE approvals)
    ELSE ConsensusLoop(vals, tx, i + 1, approvals)

ActiveCount(vals) == Cardinality({i \in 1..Len(vals) : vals[i].is_active})

\* the approvals divided by the number of all validators
validate_transaction_consensus_AllValidators(net, tx) ==
    IF net.validators = <<>> THEN [net |-> net, ret |-> TRUE, raised |-> FALSE]
    ELSE LET loop == ConsensusLoop(net.validators, tx, 1, 0)
             after == [net EXCEPT !.validators = loop.validators]
         IN [net |-> after,
             ret |-> (loop.approvals * 100 >= ThresholdPercent * Len(net.validators)),
             raised |-> FALSE]

\* approvals / active >= 0.67, in integers; raised: the division by zero
validate_transaction_consensus(net, tx) ==
    IF net.validators = <<>> THEN [net |-> net, ret |-> TRUE, raised |-> FALSE]
    ELSE LET loop == ConsensusLoop(net.validators, tx, 1, 0)
             after == [net EXCEPT !.validators = loop.validators]
             active == ActiveCount(net.validators)
         IN IF active = 0
            THEN [net |-> after, ret |-> FALSE, raised |-> TRUE]
            ELSE [net |-> after,
                  ret |-> (loop.approvals * 100 >= ThresholdPercent * active),
                  raised |-> FALSE]

\* a remove that takes the last occurrence
RECURSIVE Remove_LastOccurrence(_, _)
Remove_LastOccurrence(seq, x) ==
    IF seq = <<>> THEN <<>>
    ELSE IF seq[Len(seq)] = x THEN SubSeq(seq, 1, Len(seq) - 1)
    ELSE Remove_LastOccurrence(SubSeq(seq, 1, Len(seq) - 1), x) \o <<seq[Len(seq)]>>

\* list.remove: the first occurrence goes
RECURSIVE Remove(_, _)
Remove(seq, x) ==
    IF seq = <<>> THEN <<>>
    ELSE IF Head(seq) = x THEN Tail(seq)
    ELSE <<Head(seq)>> \o Remove(Tail(seq), x)

\* the whole queue cleared after the walk
RemoveAll_Clear(seq, processed) == <<>>

RECURSIVE RemoveAll(_, _)
RemoveAll(seq, processed) ==
    IF processed = <<>> THEN seq
    ELSE RemoveAll(Remove(seq, Head(processed)), Tail(processed))

\* a loop that leaves at the first transaction the gate rejects
RECURSIVE Walk_StopAtRejection(_, _, _, _, _)
Walk_StopAtRejection(net, queue, k, processed, gate) ==
    IF k > Len(queue)
    THEN [net |-> net, processed |-> processed, gate |-> gate, raised |-> FALSE]
    ELSE
      LET tx == queue[k]
          c == validate_transaction_consensus(net, tx)
      IN IF c.raised
         THEN [net |-> c.net, processed |-> processed, gate |-> gate, raised |-> TRUE]
         ELSE IF ~c.ret
         THEN [net |-> c.net, processed |-> processed,
               gate |-> Append(gate, [tx |-> tx, ret |-> FALSE, added |-> FALSE]),
               raised |-> FALSE]
         ELSE
           LET a == add_transaction(At(c.net.orbits, c.net.current_orbit_index), tx)
               entry == [tx |-> tx, ret |-> TRUE, added |-> a.ret]
               n1 == [c.net EXCEPT
                         !.orbits[c.net.current_orbit_index + 1] = a.orbit,
                         !.network_stats.total_transactions = @ + 1]
           IN IF ~a.ret
              THEN Walk_StopAtRejection(c.net, queue, k + 1, processed,
                                        Append(gate, entry))
              ELSE IF is_full(a.orbit)
              THEN [net |-> seal_current_orbit(n1),
                    processed |-> Append(processed, tx),
                    gate |-> Append(gate, entry), raised |-> FALSE]
              ELSE Walk_StopAtRejection(n1, queue, k + 1, Append(processed, tx),
                                        Append(gate, entry))

\* the for loop of process_pending_transactions over the copy queue, from k on
RECURSIVE Walk(_, _, _, _, _)
Walk(net, queue, k, processed, gate) ==
    IF k > Len(queue)
    THEN [net |-> net, processed |-> processed, gate |-> gate, raised |-> FALSE]
    ELSE
      LET tx == queue[k]
          c == validate_transaction_consensus(net, tx)
      IN IF c.raised
         THEN [net |-> c.net, processed |-> processed, gate |-> gate, raised |-> TRUE]
         ELSE IF ~c.ret
         THEN Walk(c.net, queue, k + 1, processed,
                   Append(gate, [tx |-> tx, ret |-> FALSE, added |-> FALSE]))
         ELSE
           LET a == add_transaction(At(c.net.orbits, c.net.current_orbit_index), tx)
               entry == [tx |-> tx, ret |-> TRUE, added |-> a.ret]
           IN IF ~a.ret
              THEN Walk(c.net, queue, k + 1, processed, Append(gate, entry))
              ELSE
                LET n1 == [c.net EXCEPT
                              !.orbits[c.net.current_orbit_index + 1] = a.orbit,
                              !.network_stats.total_transactions = @ + 1]
                IN IF is_full(a.orbit)
                   THEN [net |-> seal_current_orbit(n1),
                         processed |-> Append(processed, tx),
                         gate |-> Append(gate, entry), raised |-> FALSE]
                   ELSE Walk(n1, queue, k + 1, Append(processed, tx),
                             Append(gate, entry))

process_pending_transactions(net, timestamp) ==
    IF net.pending_transactions = <<>>
    THEN [net |-> net, gate |-> <<>>, raised |-> FALSE]
    ELSE
      LET current_orbit == At(net.orbits, net.current_orbit_index)
          n0 == IF is_full(current_orbit) \/ current_orbit.is_sealed
                THEN create_new_orbit(net, timestamp)
                ELSE net
          w == Walk(n0, n0.pending_transactions, 1, <<>>, <<>>)
      IN IF w.raised
         THEN [net |-> w.net, gate |-> w.gate, raised |-> TRUE]
         ELSE [net |-> [w.net EXCEPT !.pending_transactions =
                                         RemoveAll(@, w.processed)],
               gate |-> w.gate, raised |-> FALSE]

-----------------------------------------------------------------------------
(* The ledger as a state machine *)

ValidatorNames == {"Validator-1"}

SomeActive(vals) == \E i \in 1..Len(vals) : vals[i].is_active

Store(net) ==
    /\ orbits' = net.orbits
    /\ validators' = net.validators
    /\ pending_transactions' = net.pending_transactions
    /\ current_orbit_index' = net.current_orbit_index
    /\ network_stats' = net.network_stats

\* a call that returns None and raises nothing
Returned == [raised |-> FALSE, ret |-> "None", args |-> <<>>, gate |-> <<>>, out |-> <<>>]

\* OrbitChainNetwork.__init__, and an Orbit of its own for SpecOrbit
Init ==
    /\ \E timestamp \in Timestamps :
          LET net == create_genesis_orbit(
                        [orbits |-> <<>>, validators |-> <<>>,
                         pending_transactions |-> <<>>, current_orbit_index |-> 0,
                         network_stats |-> [total_transactions |-> 0, total_orbits |-> 0]],
                        timestamp)
          IN /\ orbits = net.orbits
             /\ validators = net.validators
             /\ pending_transactions = net.pending_transactions
             /\ current_orbit_index = net.current_orbit_index
             /\ network_stats = net.network_stats
    /\ orbit = Orbit(0, DefaultMaxTransactions, 0)
    /\ submitted = 0
    /\ pc = 0
    /\ last = Returned

Register(names) ==
    /\ \E name \in names : Store(add_validator(Network, Validator(name)))
    /\ last' = Returned
    /\ UNCHANGED <<orbit, submitted>>

RegisterValidator ==
    /\ Len(validators) < MaxValidators
    /\ Register(ValidatorNames)
    /\ UNCHANGED pc

\* Validator.is_active is a plain attribute: a caller sets it
SetActive ==
    /\ \E i \in 1..Len(validators), b \in BOOLEAN :
          /\ validators[i].is_active # b
          /\ validators' = [validators EXCEPT ![i].is_active = b]
    /\ last' = Returned
    /\ UNCHANGED <<orbits, pending_transactions, current_orbit_index, network_stats,
                   orbit, submitted, pc>>

SubmitFrom(pool, limit) ==
    /\ submitted < limit
    /\ \E tx \in pool : Store(submit_transaction(Network, tx))
    /\ submitted' = submitted + 1
    /\ last' = Returned
    /\ UNCHANGED orbit

Submit ==
    /\ SubmitFrom(TxPool, MaxSubmits)
    /\ UNCHANGED pc

\* the clock does not go back: a new orbit is not older than the current one
Process ==
    /\ \E timestamp \in {t \in Timestamps : t >= At(orbits, current_orbit_index).timestamp} :
          LET r == process_pending_transactions(Network, timestamp)
          IN /\ Store(r.net)
             /\ last' = [raised |-> r.raised, ret |-> "None", args |-> <<>>,
                         gate |-> r.gate, out |-> <<>>]
    /\ UNCHANGED <<orbit, submitted>>

\* MaxOrbits stops the calls that would open one orbit more
ProcessPending ==
    /\ \/ Len(orbits) < MaxOrbits
       \/ ~At(orbits, current_orbit_index).is_sealed
       \/ pending_transactions = <<>>
    /\ Process
    /\ UNCHANGED pc

SealCurrentOrbit ==
    /\ Store(seal_current_orbit(Network))
    /\ last' = Returned
    /\ UNCHANGED <<orbit, submitted, pc>>

Next ==
    \/ RegisterValidator
    \/ SetActive
    \/ Submit
    \/ ProcessPending
    \/ SealCurrentOrbit

Spec == Init /\ [][Next]_vars

\* a queue one longer than in Spec, and one submission more than fills an orbit
MaxQueue == MaxSubmits + 1
QueueFill == MaxFill + 1

\* how far a validator called on its own counts
MaxValidated == 2

\* how many validators the registry grows to when it is looked at alone
MaxRegistry == 7

-----------------------------------------------------------------------------
(* The ledger filled: the calls of the public surface, enough of them to fill
   an orbit of the default capacity *)

\* the validators are registered before the first transaction arrives
FillRegister ==
    /\ submitted = 0
    /\ RegisterValidator

FillSubmit ==
    /\ Len(pending_transactions) < MaxSubmits
    /\ SubmitFrom(FillPool, MaxFill)
    /\ UNCHANGED pc

FillNext ==
    \/ FillRegister
    \/ FillSubmit
    \/ ProcessPending
    \/ SealCurrentOrbit

SpecFill == Init /\ [][FillNext]_vars

-----------------------------------------------------------------------------
(* create_demo_network: four validators, then ten rounds of submit and process *)

DemoValidators == 4
DemoTransactions == 10
DemoNames == <<"Alice-Node", "Bob-Node", "Carol-Node", "Dave-Node">>
DemoEnd == DemoValidators + 2 * DemoTransactions

DemoRegister ==
    /\ pc < DemoValidators
    /\ Register({DemoNames[pc + 1]})
    /\ pc' = pc + 1

DemoSubmit ==
    /\ pc >= DemoValidators
    /\ pc < DemoEnd
    /\ (pc - DemoValidators) % 2 = 0
    /\ SubmitFrom(DemoPool, DemoTransactions)
    /\ pc' = pc + 1

DemoProcess ==
    /\ pc >= DemoValidators
    /\ pc < DemoEnd
    /\ (pc - DemoValidators) % 2 = 1
    /\ Process
    /\ pc' = pc + 1

DemoNext ==
    \/ DemoRegister
    \/ DemoSubmit
    \/ DemoProcess

SpecDemo == Init /\ [][DemoNext]_vars

-----------------------------------------------------------------------------
(* An Orbit used on its own: constructed, added to, sealed *)

Capacities == {GenesisMaxTransactions, 2, DefaultMaxTransactions}

\* what a caller passes to seal_orbit
PreviousHashes == {"", Digests[10], Digests[11]}

LedgerUnchanged ==
    UNCHANGED <<orbits, validators, pending_transactions, current_orbit_index,
                network_stats, submitted, pc>>

OrbitNew ==
    /\ \E max_transactions \in Capacities, timestamp \in Timestamps :
          orbit' = Orbit(0, max_transactions, timestamp)
    /\ last' = Returned
    /\ LedgerUnchanged

OrbitAdd ==
    /\ \E tx \in OrbitPool :
          LET r == add_transaction(orbit, tx)
          IN /\ orbit' = r.orbit
             /\ last' = [raised |-> FALSE, ret |-> IF r.ret THEN "True" ELSE "False",
                         args |-> <<tx>>, gate |-> <<>>, out |-> <<>>]
    /\ LedgerUnchanged

OrbitSeal ==
    /\ \E previous_hash \in PreviousHashes : orbit' = seal_orbit(orbit, previous_hash)
    /\ last' = Returned
    /\ LedgerUnchanged

OrbitNext ==
    \/ OrbitNew
    \/ OrbitAdd
    \/ OrbitSeal

SpecOrbit == Init /\ [][OrbitNext]_vars

-----------------------------------------------------------------------------
(* Looking an orbit up by its number *)

\* what show_orbit_detail does with orbit_number: the message that the orbit
\* does not exist, or the orbit that self.orbits[orbit_number] yields; a
\* negative number counts from the end of the list, and one below -len raises
show_orbit_detail(net, orbit_number) ==
    LET n == Len(net.orbits)
    IN IF orbit_number >= n
       THEN [raised |-> FALSE, ret |-> "NotFound", out |-> <<>>]
       ELSE IF orbit_number >= 0
       THEN [raised |-> FALSE, ret |-> "Detail", out |-> <<At(net.orbits, orbit_number)>>]
       ELSE IF orbit_number >= 0 - n
       THEN [raised |-> FALSE, ret |-> "Detail",
             out |-> <<At(net.orbits, n + orbit_number)>>]
       ELSE [raised |-> TRUE, ret |-> "IndexError", out |-> <<>>]

\* the numbers a caller asks for: in range, too large, and negative
OrbitNumbers == (0 - (MaxOrbits + 1))..MaxOrbits

ShowOrbitDetail ==
    /\ \E orbit_number \in OrbitNumbers :
          LET r == show_orbit_detail(Network, orbit_number)
          IN last' = [raised |-> r.raised, ret |-> r.ret, args |-> <<orbit_number>>,
                      gate |-> <<>>, out |-> r.out]
    /\ UNCHANGED <<orbits, validators, pending_transactions, current_orbit_index,
                   network_stats, orbit, submitted, pc>>

DetailNext ==
    \/ Submit
    \/ ProcessPending
    \/ SealCurrentOrbit
    \/ ShowOrbitDetail

SpecDetail == Init /\ [][DetailNext]_vars

-----------------------------------------------------------------------------
(* An Orbit constructed with any capacity a caller may pass *)

\* Orbit.__init__ takes max_transactions as it comes
AnyCapacities == Capacities \cup {0 - 1, 0}

OrbitConstruct ==
    /\ \E max_transactions \in AnyCapacities, timestamp \in Timestamps :
          orbit' = Orbit(0, max_transactions, timestamp)
    /\ last' = Returned
    /\ LedgerUnchanged

CapacityNext ==
    \/ OrbitConstruct
    \/ OrbitAdd
    \/ OrbitSeal

SpecCapacity == Init /\ [][CapacityNext]_vars

-----------------------------------------------------------------------------
(* The validator registry alone: validators registered under any name *)

\* the names of interactive_network; the validator command takes any name,
\* one already registered included
RegistryNames == {"Validator-1", "Validator-2"}

RegistryRegister ==
    /\ Len(validators) < MaxRegistry
    /\ Register(RegistryNames)
    /\ UNCHANGED pc

RegistryNext ==
    \/ RegistryRegister
    \/ SetActive

SpecRegistry == Init /\ [][RegistryNext]_vars

-----------------------------------------------------------------------------
(* The queue walked by a gate that rejects: the validators are registered
   before the first transaction arrives, and transactions with and without a
   sender queue up until an orbit fills *)

QueuePool == OrbitPool

QueueRegister ==
    /\ submitted = 0
    /\ RegisterValidator

QueueSubmit ==
    /\ validators # <<>>
    /\ Len(pending_transactions) < MaxQueue
    /\ SubmitFrom(QueuePool, QueueFill)
    /\ UNCHANGED pc

QueueNext ==
    \/ QueueRegister
    \/ QueueSubmit
    \/ ProcessPending

SpecQueue == Init /\ [][QueueNext]_vars

-----------------------------------------------------------------------------
(* Validators called on their own, besides the calls of the consensus gate *)

\* Transaction.signature is a plain attribute: transactions as constructed,
\* and ones whose signature was set to nothing, to 9 and to 10 characters
ValidatePool ==
    TxPool \cup
    { [Transaction(5, "Alice", "Bob", "data", 0) EXCEPT !.signature = ""],
      [Transaction(6, "Alice", "Bob", "data", 0) EXCEPT !.signature = "012345678"],
      [Transaction(7, "Alice", "Bob", "data", 0) EXCEPT !.signature = "0123456789"] }

\* the direct calls come before the first transaction is submitted
Validate ==
    /\ submitted = 0
    /\ \E i \in 1..Len(validators), tx \in ValidatePool :
          /\ validators[i].validated_count < MaxValidated
          /\ LET r == validate_transaction(validators[i], tx)
             IN /\ validators' = [validators EXCEPT ![i] = r.validator]
                /\ last' = [raised |-> FALSE, ret |-> IF r.ret THEN "True" ELSE "False",
                            args |-> <<i, tx>>, gate |-> <<>>, out |-> <<>>]
    /\ UNCHANGED <<orbits, pending_transactions, current_orbit_index, network_stats,
                   orbit, submitted, pc>>

ValidateNext ==
    \/ RegisterValidator
    \/ SetActive
    \/ Validate
    \/ Submit
    \/ ProcessPending

SpecValidate == Init /\ [][ValidateNext]_vars

-----------------------------------------------------------------------------
(* The ledger with process_pending_transactions called again and again, as the
   loops of create_demo_network and interactive_network call it after every
   submission; the registry is empty or keeps an active validator *)

\* is_active set by a caller who leaves one validator active
LiveSetActive ==
    /\ SetActive
    /\ SomeActive(validators')

\* the orbit is sealed by hand while MaxOrbits lets another one be opened
LiveSeal ==
    /\ Len(orbits) < MaxOrbits
    /\ SealCurrentOrbit

LiveNext ==
    \/ RegisterValidator
    \/ LiveSetActive
    \/ Submit
    \/ ProcessPending
    \/ LiveSeal

\* ENABLED <<ProcessPending>>_vars as a state predicate: a call is allowed
\* and changes the ledger or what the last call is recorded to have done
ProcessPendingEnabled ==
    /\ \/ Len(orbits) < MaxOrbits
       \/ ~At(orbits, current_orbit_index).is_sealed
       \/ pending_transactions = <<>>
    /\ \E timestamp \in {t \in Timestamps : t >= At(orbits, current_orbit_index).timestamp} :
          LET r == process_pending_transactions(Network, timestamp)
          IN \/ r.net # Network
             \/ last # [raised |-> r.raised, ret |-> "None", args |-> <<>>,
                        gate |-> r.gate, out |-> <<>>]

\* weak fairness of ProcessPending, written out with the state predicate
\* above in the place of ENABLED: the call is made again and again, as the
\* loops of the program make it after every submission
ProcessPendingFair ==
    []<>~ProcessPendingEnabled \/ []<><<ProcessPending>>_vars

SpecLive == Init /\ [][LiveNext]_vars /\ ProcessPendingFair

-----------------------------------------------------------------------------
(* The claims *)

RECURSIVE Count(_, _)
Count(seq, x) ==
    IF seq = <<>> THEN 0
    ELSE (IF Head(seq) = x THEN 1 ELSE 0) + Count(Tail(seq), x)

\* how often x stands in the orbits
RECURSIVE CountInOrbits(_, _)
CountInOrbits(os, x) ==
    IF os = <<>> THEN 0
    ELSE Count(Head(os).transactions, x) + CountInOrbits(Tail(os), x)

NoParty(tx) == tx.sender = "" \/ tx.receiver = ""

\* C1: every sealed orbit at index i >= 1 has previous_hash equal to the
\* orbital_hash of the orbit at index i - 1, and the orbit at index 0 has
\* previous_hash "" (checked under SpecFill: registerValidator, submit,
\* processPending and sealCurrentOrbit in any order).
C1_SealedChainLinked ==
    /\ At(orbits, 0).previous_hash = ""
    /\ \A i \in 1..(Len(orbits) - 1) :
          At(orbits, i).is_sealed =>
              At(orbits, i).previous_hash = At(orbits, i - 1).orbital_hash

\* orbit 1 sealed because it became full, orbit 2 sealed by sealCurrentOrbit
C1_Witness ==
    /\ Len(orbits) = 3
    /\ At(orbits, 1).is_sealed
    /\ Len(At(orbits, 1).transactions) = DefaultMaxTransactions
    /\ At(orbits, 2).is_sealed
    /\ Len(At(orbits, 2).transactions) = 1

\* C2: with a registry that is not empty and holds no active validator the
\* consensus gate rejects without a division fault, so processPending never
\* raises.
C2_NoDivisionFault ==
    (validators # <<>> /\ ~SomeActive(validators)) => ~last.raised

\* C3: Orbit.add on a sealed orbit, or on one whose transaction count equals
\* its capacity, returns false and leaves the orbit as it was; in every other
\* case it returns true and appends the transaction at the end of the list.
C3_AddContract ==
    [][last'.ret # "None" =>
          IF orbit.is_sealed \/ Len(orbit.transactions) = orbit.max_transactions
          THEN /\ last'.ret = "False"
               /\ orbit'.transactions = orbit.transactions
               /\ orbit'.merkle_root = orbit.merkle_root
               /\ orbit'.is_sealed = orbit.is_sealed
               /\ orbit'.previous_hash = orbit.previous_hash
               /\ orbit'.orbital_hash = orbit.orbital_hash
          ELSE /\ last'.ret = "True"
               /\ orbit'.transactions = Append(orbit.transactions, last'.args[1])]_vars

\* add has been refused by a sealed orbit that still had room
C3_Witness ==
    /\ last.ret = "False"
    /\ orbit.is_sealed
    /\ orbit.transactions # <<>>
    /\ Len(orbit.transactions) < orbit.max_transactions

\* C4: every orbit that holds no transaction has the merkle root of sixteen
\* zero characters.
C4_EmptyOrbitZeroRoot ==
    \A i \in 1..Len(orbits) :
        orbits[i].transactions = <<>> => orbits[i].merkle_root = ZeroRoot

\* C5: sealing an orbit that is already sealed is a no-op: previous_hash,
\* orbital_hash, merkle root and transaction list stay as the first seal left
\* them (the Orbit on its own, seal_orbit with any previous_hash).
C5_SealOnce ==
    [][(orbit.is_sealed /\ orbit'.is_sealed) =>
          /\ orbit'.previous_hash = orbit.previous_hash
          /\ orbit'.orbital_hash = orbit.orbital_hash
          /\ orbit'.merkle_root = orbit.merkle_root
          /\ orbit'.transactions = orbit.transactions]_vars

\* C6: while the registry holds an active validator, no call takes a
\* transaction with an empty sender or receiver out of the pending queue or
\* puts it into an orbit, and a call on a queue of only such transactions
\* leaves the counter of admitted transactions as it was.
C6_NoPartyNeverAdmitted ==
    [][SomeActive(validators) =>
          /\ \A tx \in TxPool :
                NoParty(tx) =>
                   /\ Count(pending_transactions', tx) >= Count(pending_transactions, tx)
                   /\ CountInOrbits(orbits', tx) = CountInOrbits(orbits, tx)
          /\ (\A k \in 1..Len(pending_transactions) : NoParty(pending_transactions[k]))
                => network_stats'.total_transactions = network_stats.total_transactions]_vars

\* one call of processPending has admitted a well formed transaction and left
\* one without a sender, queued ahead of it, in the queue
C6_Witness ==
    /\ SomeActive(validators)
    /\ Len(last.gate) = 2
    /\ NoParty(last.gate[1].tx) /\ ~last.gate[1].ret
    /\ last.gate[2].ret
    /\ pending_transactions = <<last.gate[1].tx>>
    /\ CountInOrbits(orbits, last.gate[1].tx) = 0

\* C7, as the spec states it: four validators, then ten rounds of submit and
\* processPending, give exactly 2 orbits, orbit #1 sealed with 8 transactions
\* and orbit #2 open with 2, and an empty pending queue.
C7_TwoOrbits ==
    pc = DemoEnd =>
        /\ Len(orbits) = 2
        /\ At(orbits, 1).is_sealed /\ Len(At(orbits, 1).transactions) = 8
        /\ ~At(orbits, 2).is_sealed /\ Len(At(orbits, 2).transactions) = 2
        /\ pending_transactions = <<>>

\* C7, amended: the ledger then holds exactly 3 orbits, the genesis orbit #0
\* and two more: orbit #1 sealed with 8 transactions and orbit #2 open with 2,
\* and the pending queue is empty.
C7_DemoOutcome ==
    pc = DemoEnd =>
        /\ Len(orbits) = 3
        /\ At(orbits, 1).is_sealed /\ Len(At(orbits, 1).transactions) = 8
        /\ ~At(orbits, 2).is_sealed /\ Len(At(orbits, 2).transactions) = 2
        /\ pending_transactions = <<>>

C7_Witness ==
    /\ pc = DemoEnd
    /\ Len(validators) = 4
    /\ submitted = 10

\* C8: in every step a sealed orbit stays sealed, the orbit sequence changes
\* only by one orbit appended at its end (the orbits there keep their index),
\* and the current index does not decrease.
C8_OneWay ==
    [][/\ Len(orbits') \in {Len(orbits), Len(orbits) + 1}
       /\ \A i \in 1..Len(orbits) :
             /\ orbits'[i].orbit_number = orbits[i].orbit_number
             /\ orbits'[i].timestamp = orbits[i].timestamp
             /\ orbits'[i].max_transactions = orbits[i].max_transactions
             /\ orbits[i].is_sealed => orbits'[i].is_sealed
       /\ current_orbit_index' >= current_orbit_index]_vars

\* two orbits appended, the first of them sealed, the index moved twice
C8_Witness ==
    /\ Len(orbits) = 3
    /\ At(orbits, 1).is_sealed
    /\ current_orbit_index = 2

\* C9, as the spec states it: for every index i >= 1 of the orbit sequence,
\* the open orbit included, orbits[i].previous_hash = orbits[i-1].orbital_hash.
C9_AllLinked ==
    \A i \in 1..(Len(orbits) - 1) :
        At(orbits, i).previous_hash = At(orbits, i - 1).orbital_hash

\* C9, amended: for every index i >= 1, a sealed orbit has the orbital_hash of
\* the orbit before it as previous_hash, and an orbit not yet sealed has the
\* empty previous_hash.
C9_LinkedOnceSealed ==
    \A i \in 1..(Len(orbits) - 1) :
        IF At(orbits, i).is_sealed
        THEN At(orbits, i).previous_hash = At(orbits, i - 1).orbital_hash
        ELSE At(orbits, i).previous_hash = ""

\* a sealed orbit and an open one behind the genesis orbit
C9_Witness ==
    /\ Len(orbits) = 3
    /\ At(orbits, 1).is_sealed
    /\ ~At(orbits, 2).is_sealed

\* C10: the gate approves every transaction when the registry is empty; when
\* a validator is active it approves iff (active validators whose validate is
\* true) / (active validators) >= the threshold, inactive validators counting
\* on neither side.
C10_GateRule ==
    [][\A k \in 1..Len(last'.gate) :
          LET e == last'.gate[k]
              active == {i \in 1..Len(validators) : validators[i].is_active}
              approving == {i \in active : validate_transaction(validators[i], e.tx).ret}
          IN /\ validators = <<>> => e.ret
             /\ active # {} =>
                   (e.ret <=> Cardinality(approving) * 100
                                 >= ThresholdPercent * Cardinality(active))]_vars

\* the gate has approved on the vote of the one active validator of two
C10_Witness ==
    /\ Len(validators) = 2
    /\ validators[1].is_active /\ ~validators[2].is_active
    /\ \E k \in 1..Len(last.gate) : last.gate[k].ret

\* C11: looking up orbit number n shows the orbit at index n when
\* 0 <= n < number of orbits, and reports that the orbit does not exist for
\* every other integer n, without raising and without showing another orbit.
C11_DetailOrNotFound ==
    last.ret \in {"Detail", "NotFound", "IndexError"} =>
        LET n == last.args[1]
        IN IF 0 <= n /\ n < Len(orbits)
           THEN last.ret = "Detail" /\ last.out = <<At(orbits, n)>>
           ELSE last.ret = "NotFound" /\ ~last.raised

\* C12: constructing an Orbit with a capacity that is not positive fails at
\* construction, so no Orbit with capacity <= 0 exists.
C12_PositiveCapacity ==
    orbit.max_transactions > 0

\* C13: after any sequence of registerValidator calls no two validators of the
\* registry have the same name.
C13_UniqueNames ==
    \A i, j \in 1..Len(validators) :
        i # j => validators[i].name # validators[j].name

\* C14 as the claim states it: the new validator's sector_position times the
\* count after insertion equals the index before insertion times 360 (exact
\* division) for every pool size, and the positions of the validators
\* registered before are unchanged.
C14_ExactSectors ==
    [][Len(validators') = Len(validators) + 1 =>
          LET n == Len(validators)
          IN /\ validators'[n + 1].sector_position * (n + 1) = n * FullCircle
             /\ \A i \in 1..n :
                   validators'[i].sector_position = validators[i].sector_position]_vars

\* C14, amended: the new validator's sector_position is the index before
\* insertion times the integer quotient (floor) of 360 by the count after
\* insertion, and the positions of the validators registered before are
\* unchanged.
C14_FloorSectors ==
    [][Len(validators') = Len(validators) + 1 =>
          LET n == Len(validators)
              q == CHOOSE k \in 0..FullCircle :
                       k * (n + 1) <= FullCircle /\ FullCircle < (k + 1) * (n + 1)
          IN /\ validators'[n + 1].sector_position = n * q
             /\ \A i \in 1..n :
                   validators'[i].sector_position = validators[i].sector_position]_vars

\* a registry with a validator whose position is not the exact quotient
C14_Witness ==
    \E i \in 1..Len(validators) :
        validators[i].sector_position * i # (i - 1) * FullCircle

Admitted(entry) == entry.added
Deferred(entry) == ~entry.added
Txs(entries) == [i \in 1..Len(entries) |-> entries[i].tx]

\* C15: one processPending call walks the queue from its head and admits into
\* exactly one orbit, the admitted transactions standing in that orbit in
\* queue order; it stops walking as soon as that orbit is full, which it then
\* seals; afterwards the queue is the queue before with exactly the admitted
\* transactions removed, the rest in their order.
C15_OneOrbitPerCall ==
    [][last'.gate # <<>> =>
          LET g == last'.gate
              k == Len(g)
              q == pending_transactions
              target == At(orbits', current_orbit_index')
              before == IF current_orbit_index' = current_orbit_index
                        THEN At(orbits, current_orbit_index).transactions
                        ELSE <<>>
          IN /\ k <= Len(q)
             /\ \A i \in 1..k : g[i].tx = q[i]
             /\ Len(orbits') <= Len(orbits) + 1
             /\ \A i \in 1..Len(orbits) :
                   i # current_orbit_index' + 1 =>
                       orbits'[i].transactions = orbits[i].transactions
             /\ target.transactions = before \o Txs(SelectSeq(g, Admitted))
             /\ pending_transactions' =
                    Txs(SelectSeq(g, Deferred)) \o SubSeq(q, k + 1, Len(q))
             /\ k < Len(q) => g[k].added
             /\ g[k].added /\ Len(target.transactions) >= target.max_transactions
                    <=> target.is_sealed
             /\ Len(before) + Len(SelectSeq(SubSeq(g, 1, k - 1), Admitted))
                    < target.max_transactions]_vars

\* a call that admitted the head of the queue, filled and sealed the orbit
\* with it, and left a rejected transaction and one not walked in the queue
C15_Witness ==
    /\ Len(last.gate) = 1
    /\ last.gate[1].added
    /\ Len(pending_transactions) = 2
    /\ NoParty(pending_transactions[1])
    /\ pending_transactions[2] = last.gate[1].tx
    /\ At(orbits, current_orbit_index).is_sealed
    /\ Len(At(orbits, current_orbit_index).transactions) = DefaultMaxTransactions

WellFormed(tx) ==
    /\ tx.signature # ""
    /\ Len(tx.signature) >= MinSignatureLen
    /\ tx.sender # ""
    /\ tx.receiver # ""

\* C16: Validator.validate(tx) returns true exactly when the tag of tx is not
\* empty and at least 10 long and sender and receiver are not empty; the
\* validated counter goes up by exactly 1 when it returns true and stays when
\* it returns false; no counter ever goes down; and the counter of an inactive
\* validator is not changed by processPending.
C16_ValidateContract ==
    [][/\ last'.args # <<>> =>
             LET i == last'.args[1]
                 tx == last'.args[2]
             IN /\ last'.ret = "True" <=> WellFormed(tx)
                /\ last'.ret = "False" <=> ~WellFormed(tx)
                /\ validators'[i].validated_count =
                       validators[i].validated_count + (IF WellFormed(tx) THEN 1 ELSE 0)
       /\ Len(validators') >= Len(validators)
       /\ \A i \in 1..Len(validators) :
             /\ validators'[i].validated_count >= validators[i].validated_count
             /\ last'.args = <<>> /\ ~validators[i].is_active =>
                    validators'[i].validated_count = validators[i].validated_count]_vars

\* a processPending call that admitted on the vote of an active validator
\* while an inactive one, never counted, stood in the registry
C16_Witness ==
    /\ last.gate # <<>>
    /\ last.gate[1].ret
    /\ \E i, j \in 1..Len(validators) :
          /\ ~validators[i].is_active
          /\ validators[i].validated_count = 0
          /\ validators[j].is_active
          /\ validators[j].validated_count = MaxValidated

\* the reference Merkle fold: the leaves are paired from the left, a leaf
\* without a partner is paired with itself, and a single leaf is its own root
RECURSIVE RefPairs(_)
RefPairs(tags) ==
    IF tags = <<>> THEN <<>>
    ELSE IF Len(tags) = 1
    THEN <<Sha256Hex16(Encode(tags[1]) \o Encode(tags[1]))>>
    ELSE <<Sha256Hex16(Encode(tags[1]) \o Encode(tags[2]))>>
         \o RefPairs(SubSeq(tags, 3, Len(tags)))

RECURSIVE RefRoot(_)
RefRoot(tags) ==
    IF Len(tags) = 1 THEN tags[1] ELSE RefRoot(RefPairs(tags))

Tags(o) == [k \in 1..Len(o.transactions) |-> o.transactions[k].signature]

\* C17: in every reachable state the stored Merkle root of every orbit that
\* holds at least one transaction is the reference Merkle fold over the tags
\* of its transactions in insertion order.
C17_MerkleRoot ==
    \A i \in 1..Len(orbits) :
        orbits[i].transactions # <<>> =>
            orbits[i].merkle_root = RefRoot(Tags(orbits[i]))

\* an orbit with an odd number of leaves on two levels and with different tags,
\* whose root tells the order of its tags
C17_Witness ==
    \E i \in 1..Len(orbits) :
        /\ Len(orbits[i].transactions) = 5
        /\ \E j, k \in 1..5 : Tags(orbits[i])[j] # Tags(orbits[i])[k]
        /\ orbits[i].merkle_root #
               RefRoot([k \in 1..5 |-> Tags(orbits[i])[6 - k]])

\* C18: when the registry is empty or always holds an active validator and
\* processPending is called again and again (weak fairness), every submitted
\* well formed transaction eventually leaves the queue and stands in an orbit,
\* whatever rejected transactions are queued ahead of it.
C18_ValidEventuallyAdmitted ==
    \A tx \in {t \in TxPool : WellFormed(t)} :
        (Count(pending_transactions, tx) > 0)
            ~> (Count(pending_transactions, tx) = 0 /\ CountInOrbits(orbits, tx) > 0)

\* a well formed transaction admitted from behind a rejected one that stays
C18_Witness ==
    /\ Len(last.gate) = 2
    /\ ~last.gate[1].ret
    /\ last.gate[2].added
    /\ WellFormed(last.gate[2].tx)
    /\ pending_transactions = <<last.gate[1].tx>>
    /\ CountInOrbits(orbits, last.gate[2].tx) = 1

RECURSIVE TransactionsIn(_)
TransactionsIn(os) ==
    IF os = <<>> THEN 0 ELSE Len(Head(os).transactions) + TransactionsIn(Tail(os))

\* C19: between operations the counter of admitted transactions is the sum of
\* the transaction counts of all orbits, the genesis orbit included, and the
\* number of submit calls is the length of the queue plus that counter less
\* the one genesis transaction.
C19_Conservation ==
    /\ network_stats.total_transactions = TransactionsIn(orbits)
    /\ submitted = Len(pending_transactions) + (network_stats.total_transactions - 1)

\* a call admitted one transaction and left a rejected one in the queue
C19_Witness ==
    /\ submitted = MaxSubmits
    /\ pending_transactions # <<>>
    /\ network_stats.total_transactions > 1
    /\ \E i \in 1..Len(last.gate) : ~last.gate[i].ret

\* C20: the current index is the index of the last orbit, the sequence number
\* of every orbit is its index, every orbit before the current one is sealed,
\* and an open orbit holds fewer transactions than its capacity (a full orbit
\* is sealed); so at most one orbit is open, and add_transaction never fails
\* inside processPending.
C20_LedgerShape ==
    /\ current_orbit_index = Len(orbits) - 1
    /\ \A i \in 0..(Len(orbits) - 1) :
          /\ At(orbits, i).orbit_number = i
          /\ i < current_orbit_index => At(orbits, i).is_sealed
          /\ ~At(orbits, i).is_sealed =>
                 Len(At(orbits, i).transactions) < At(orbits, i).max_transactions
    /\ Cardinality({i \in 1..Len(orbits) : ~orbits[i].is_sealed}) <= 1
    /\ \A k \in 1..Len(last.gate) : last.gate[k].ret => last.gate[k].added

\* a call filled the orbit and sealed it, after an orbit sealed by hand
C20_Witness ==
    /\ Len(orbits) = MaxOrbits
    /\ \A i \in 1..Len(orbits) : orbits[i].is_sealed
    /\ Len(orbits[MaxOrbits].transactions) = DefaultMaxTransactions
    /\ orbits[MaxOrbits - 1].transactions # <<>>
    /\ last.gate # <<>>

====
